---- MODULE Spec2Model ----
(***************************************************************************)
(* Capacity-expansion / dispatch engine of the POSCO decarbonisation       *)
(* optimiser: the aggregate runner (run.main: load_parameters, build_model,*)
(* solve, export_timeseries, export_detailed_timeseries, summary) and the  *)
(* product-class runner (run_original.main).                               *)
(*                                                                         *)
(* Units.  Quantities (Q, K, demand, free allocation) are integers in Mt.  *)
(* Fractions are percentages, so an effective emission factor is kept      *)
(* multiplied by EfScale (= 100) and emissions / ETSpos are in 1/100 MtCO2.*)
(* Money is kept in units of 1e6/EfScale USD (UsdPerUnit), so the code's   *)
(* "* 1e6" on a Mt quantity becomes "* EfScale" and on an emission         *)
(* quantity becomes "* 1".  A discount rate is a fraction num/den and a    *)
(* discount factor is kept multiplied by (den+num)^DiscExpMax.             *)
(***************************************************************************)
EXTENDS Integers, Sequences, FiniteSets, TLC

VARIABLES
    pc,        \* position of run.main
    xls,       \* what load_parameters found in the workbook: sheet names, scenario names
    args,      \* parsed command line of run.main (plus build_model's keyword ccus_capture_max)
    p,         \* the parameter dictionary returned by load_parameters
    m,         \* the Pyomo model: sets, effective emission factors, variable values
    tc,        \* res.solver.termination_condition
    written,   \* the output files that exist
    series,    \* rows of series_<scenario>.csv
    detailed,  \* rows of detailed_results_<scenario>.csv
    summary,   \* content of summary_<scenario>.json
    exc,       \* the exception that ended run.main, if any
    opc,       \* position of run_original.main
    oargs,     \* parsed command line of run_original.main
    osheets,   \* the sheets load_params returned
    om,        \* the product-class Pyomo model: demand parameter, variable values
    osolve,    \* what the solver did in run_original.main
    owritten   \* the output files of run_original.main that exist

vars == <<pc, xls, args, p, m, tc, written, series, detailed, summary, exc,
          opc, oargs, osheets, om, osolve, owritten>>
mainVars == <<pc, xls, args, p, m, tc, written, series, detailed, summary, exc>>
origVars == <<opc, oargs, osheets, om, osolve, owritten>>

----------------------------------------------------------------------------
(* Bounds of the model *)

FirstYear == 2025
MaxDemand == 2

\* the numbers of units the solver is offered for one route in one year
BuildUnits == {0, 1}
MaxBuild == CHOOSE n \in BuildUnits : \A k \in BuildUnits : k <= n

\* the years a contiguous scenario lists
ContiguousYears == <<FirstYear, FirstYear + 1>>
Horizon == Len(ContiguousYears)

\* ETSpos is tried at these whole-Mt offsets from max(0, emissions - free allocation)
SlackSteps == {-1, 0, 1}

(* Program constants *)

EfScale == 100
CcusCaptureDefault == 80
CcusCaptureExport == 80
EtsTolUSD == 1000
UsdPerUnit == 10000
DemandTolMicro == 1
MicroPerMt == 1000000
DiscExpMax == Horizon

----------------------------------------------------------------------------
(* Arithmetic helpers *)

Abs(x) == IF x < 0 THEN -x ELSE x
Max2(a, b) == IF a >= b THEN a ELSE b

RECURSIVE Pow(_, _)
Pow(b, e) == IF e <= 0 THEN 1 ELSE b * Pow(b, e - 1)

RECURSIVE SumOver(_, _)
SumOver(f, S) ==
    IF S = {} THEN 0
    ELSE LET x == CHOOSE y \in S : TRUE IN f[x] + SumOver(f, S \ {x})

SetMin(S) == CHOOSE x \in S : \A y \in S : x <= y

----------------------------------------------------------------------------
(* The workbook: the tables load_parameters reads.  The technology tables  *)
(* are fixed data; the carbon-price rows, free allocation and demand path  *)
(* are the inputs that vary.                                               *)

REQUIRED_SHEETS == {"tech_routes", "process_intensity", "ef_scope1", "fuel_prices",
                    "carbon_price", "free_allocation_linked", "demand_path"}

Routes == {"BF-BOF", "BF-BOF+CCUS"}

\* a route name as the pieces the substring test ("CCUS" in r) looks at
RouteTokens(r) ==
    CASE r = "BF-BOF"      -> <<"BF-BOF">>
      [] r = "BF-BOF+CCUS" -> <<"BF-BOF", "+", "CCUS">>
      [] OTHER             -> <<r>>

TechSheet ==
    [r \in Routes |->
        IF r = "BF-BOF"
        THEN [unit_capacity_Mtpy |-> 1, capex_USD_per_tpy |-> 1, fixed_opex_USD_per_tpy |-> 1]
        ELSE [unit_capacity_Mtpy |-> 1, capex_USD_per_tpy |-> 2, fixed_opex_USD_per_tpy |-> 1]]

EfSheet == [r \in Routes |-> 2]

IntensityKeys == {"iron_ore_t_per_t", "coking_coal_t_per_t", "scrap_t_per_t", "ng_GJ_per_t",
                  "electricity_MWh_per_t", "h2_kg_per_t", "fluxes_t_per_t", "alloys_USD_per_t"}

\* process_intensity rows; a column a row lacks is absent from the record (.get(k, 0.0))
IntensitySheet ==
    [r \in Routes |->
        IF r = "BF-BOF"
        THEN [iron_ore_t_per_t |-> 1, coking_coal_t_per_t |-> 1]
        ELSE [iron_ore_t_per_t |-> 1, coking_coal_t_per_t |-> 1,
              electricity_MWh_per_t |-> 1, h2_kg_per_t |-> 1]]

Commodities == {"iron_ore_USD_per_t", "coking_coal_USD_per_t", "scrap_USD_per_t",
                "ng_USD_per_GJ", "electricity_USD_per_MWh",
                "hydrogen_USD_per_kg_optimistic", "hydrogen_USD_per_kg_baseline",
                "fluxes_USD_per_t"}

AllYears == FirstYear .. (FirstYear + Horizon)

\* fuel_prices: wide by year
FuelPriceSheet ==
    [c \in Commodities |->
        [y \in AllYears |->
            CASE c = "hydrogen_USD_per_kg_baseline"   -> 3
              [] c = "hydrogen_USD_per_kg_optimistic" -> 1
              [] c = "electricity_USD_per_MWh"        -> 1 + (y - FirstYear)
              [] OTHER                                -> 1]]

\* fuel_prices as pandas reads it: the cells that hold a number, and the cells
\* left blank, which read_excel returns as NaN
FullFuelPrices == [cells |-> FuelPriceSheet, blank |-> {}]

\* the same sheet with one cell removed: the year column is not in the sheet
\* (blank = FALSE) or the cell is empty (blank = TRUE)
FuelPricesWithout(c0, y0, blank) ==
    [cells |-> [c \in Commodities |->
                   IF c = c0
                   THEN [y \in AllYears \ {y0} |-> FuelPriceSheet[c][y]]
                   ELSE FuelPriceSheet[c]],
     blank |-> IF blank THEN {<<c0, y0>>} ELSE {}]

\* the same sheet without the row of one commodity
FuelPricesWithoutRow(c0) ==
    [cells |-> [c \in Commodities \ {c0} |-> FuelPriceSheet[c]], blank |-> {}]

FuelPriceSheets ==
    { FullFuelPrices,
      FuelPricesWithout("electricity_USD_per_MWh", FirstYear + 1, FALSE),
      FuelPricesWithout("scrap_USD_per_t", FirstYear, TRUE),
      FuelPricesWithoutRow("hydrogen_USD_per_kg_optimistic") }

----------------------------------------------------------------------------
(* Inputs that vary: the carbon_price rows of the workbook, the free       *)
(* allocation rows, the demand path, and the command line.                 *)

ScenarioInSheet == "NGFS_NetZero2050"
OtherScenarioInSheet == "NGFS_NDCs"
ScenarioNames == {"NGFS_NetZero2050", "NGFS_Below2C"}

CarbonPrices == {0, 1}
\* free_allocation_linked lists the first year only; later years default to 0
FreeAllocSheet == [y \in {FirstYear} |-> 1]
UtilRates == {0, 90, 100}
CaptureFractions == {50, CcusCaptureDefault}
DiscountRates == {[num |-> 1, den |-> 4]}
HydrogenCases == {"baseline", "optimistic"}

\* the year lists a scenario's rows may give: contiguous, one year listed
\* twice, one year of the range not listed
YearLists ==
    { ContiguousYears,
      <<FirstYear>> \o ContiguousYears,
      [i \in 1 .. Horizon |-> IF i = Horizon THEN FirstYear + Horizon ELSE FirstYear + i - 1] }

SeqRange(s) == {s[i] : i \in DOMAIN s}
Last(s) == s[Len(s)]

\* carbon_price sheet (long form): one row of another scenario, then the
\* chosen scenario's rows latest year first
CarbonPriceRows(yl, price) ==
    <<[scenario |-> OtherScenarioInSheet, year |-> FirstYear + Horizon, price |-> 1]>>
    \o [i \in 1 .. Len(yl) |->
          [scenario |-> ScenarioInSheet,
           year |-> yl[Len(yl) + 1 - i],
           price |-> price[yl[Len(yl) + 1 - i]]]]

\* the sheets a workbook may hold: all required ones, or all but one of them
SheetNameSets == {REQUIRED_SHEETS} \cup {REQUIRED_SHEETS \ {s} : s \in REQUIRED_SHEETS}

WorkbooksFor(yl) ==
    { [sheet_names |-> sn,
       carbon_price |-> CarbonPriceRows(yl, price),
       free_allocation_linked |-> FreeAllocSheet,
       demand_path |-> dem,
       tech_routes |-> TechSheet,
       process_intensity |-> IntensitySheet,
       ef_scope1 |-> EfSheet,
       fuel_prices |-> FullFuelPrices] :
        sn \in SheetNameSets,
        price \in [SeqRange(yl) -> CarbonPrices],
        dem \in [FirstYear .. Last(yl) -> 1 .. MaxDemand] }

\* the workbooks whose fuel_prices sheet lacks a price
WorkbooksWithPriceGaps ==
    { [wb EXCEPT !.fuel_prices = fp] :
        wb \in {w \in WorkbooksFor(ContiguousYears) :
                    /\ w.sheet_names = REQUIRED_SHEETS
                    /\ \A y \in DOMAIN w.demand_path : w.demand_path[y] = 1},
        fp \in FuelPriceSheets \ {FullFuelPrices} }

\* a sheet cut down to the rows of some routes
RowsOf(sheet, rs) == [r \in rs |-> sheet[r]]

\* complete workbooks with contiguous years and the same demand in every year
ConstantDemandWorkbooks ==
    {w \in WorkbooksFor(ContiguousYears) :
        /\ w.sheet_names = REQUIRED_SHEETS
        /\ \A y \in DOMAIN w.demand_path : w.demand_path[y] = w.demand_path[FirstYear]}

\* the workbooks whose tech_routes sheet lists one route only; process_intensity
\* has the row of that route, or the rows of both routes
SingleRouteWorkbooks ==
    { [wb EXCEPT !.tech_routes = RowsOf(TechSheet, {"BF-BOF"}), !.process_intensity = pi] :
        wb \in ConstantDemandWorkbooks,
        pi \in {RowsOf(IntensitySheet, {"BF-BOF"}), IntensitySheet} }

\* the workbooks whose process_intensity sheet lacks the row of a listed route
WorkbooksWithoutIntensityRow ==
    { [wb EXCEPT !.process_intensity = RowsOf(IntensitySheet, {"BF-BOF"})] :
        wb \in {w \in ConstantDemandWorkbooks :
                    \A i \in DOMAIN w.carbon_price : w.carbon_price[i].price = 1} }

Workbooks ==
    UNION {WorkbooksFor(yl) : yl \in YearLists} \cup WorkbooksWithPriceGaps
    \cup SingleRouteWorkbooks \cup WorkbooksWithoutIntensityRow

\* run.main never passes ccus_capture_max: build_model runs with its default
ArgSets ==
    [carbon_scenario : ScenarioNames, discount : DiscountRates, util : UtilRates,
     hydrogen_case : HydrogenCases, solve : BOOLEAN, ccus_capture_max : {CcusCaptureDefault}]

\* a caller of the library (build_model, then the exporters) may pass any capture fraction
LibArgSets ==
    [carbon_scenario : {ScenarioInSheet}, discount : DiscountRates, util : {90, 100},
     hydrogen_case : {"baseline"}, solve : BOOLEAN, ccus_capture_max : CaptureFractions]

\* an ef_scope1 sheet whose CCUS route has a base factor of zero
EfSheets == {EfSheet, [r \in Routes |-> IF r = "BF-BOF" THEN 2 ELSE 0]}

LibWorkbooks ==
    { [wb EXCEPT !.ef_scope1 = ef] :
        wb \in {w \in WorkbooksFor(ContiguousYears) : w.sheet_names = REQUIRED_SHEETS},
        ef \in EfSheets }

----------------------------------------------------------------------------
(* io.load_parameters *)

\* sorted(list of ints): insertion sort, duplicates kept
RECURSIVE InsertSorted(_, _)
InsertSorted(s, x) ==
    IF s = <<>> THEN <<x>>
    ELSE IF x <= Head(s) THEN <<x>> \o s
    ELSE <<Head(s)>> \o InsertSorted(Tail(s), x)

RECURSIVE SortInts(_)
SortInts(s) == IF s = <<>> THEN <<>> ELSE InsertSorted(SortInts(Tail(s)), Head(s))

\* df[df["scenario"] == name]
RECURSIVE SelectRows(_, _)
SelectRows(rows, name) ==
    IF rows = <<>> THEN <<>>
    ELSE IF Head(rows).scenario = name
         THEN <<Head(rows)>> \o SelectRows(Tail(rows), name)
         ELSE SelectRows(Tail(rows), name)

\* Series.to_dict(): one entry per index value, the last row of that index wins
ToDict(rows) ==
    [y \in {rows[i].year : i \in DOMAIN rows} |->
        LET last == CHOOSE i \in DOMAIN rows :
                        /\ rows[i].year = y
                        /\ \A j \in DOMAIN rows : rows[j].year = y => j <= i
        IN rows[last].price]

\* (variant: the check stops at the first sheets of the list)
MissingSheets_first_two(wb) == {"tech_routes", "process_intensity"} \ wb.sheet_names

MissingSheets(wb) == REQUIRED_SHEETS \ wb.sheet_names
ScenarioKnown(wb, name) == name \in {wb.carbon_price[i].scenario : i \in DOMAIN wb.carbon_price}

load_parameters(wb, carbon_scenario) ==
    LET df_cp == SelectRows(wb.carbon_price, carbon_scenario)
        years == SortInts([i \in DOMAIN df_cp |-> df_cp[i].year])
    IN [years |-> years,
        t0 |-> SetMin(SeqRange(years)),
        routes |-> DOMAIN wb.tech_routes,
        tech |-> wb.tech_routes,
        intensity |-> wb.process_intensity,
        ef_scope1 |-> wb.ef_scope1,
        demand |-> wb.demand_path,
        carbon_price |-> ToDict(df_cp),
        free_alloc |-> wb.free_allocation_linked,
        fuel_prices |-> wb.fuel_prices.cells,
        fuel_blank |-> wb.fuel_prices.blank]

\* price_fn(commodity, y): the fuel_prices cell
price_fn(q, commodity, y) == q.fuel_prices[commodity][y]

\* df_fp.loc[commodity] or row[str(y)] raises KeyError: no such row or column
price_fn_raises(q, commodity, y) ==
    \/ commodity \notin DOMAIN q.fuel_prices
    \/ /\ y \notin DOMAIN q.fuel_prices[commodity]
       /\ <<commodity, y>> \notin q.fuel_blank

\* float(row[str(y)]) of an empty cell: NaN is returned, nothing is raised
price_fn_nan(q, commodity, y) == <<commodity, y>> \in q.fuel_blank

----------------------------------------------------------------------------
(* model.build_model *)

IsCCUS(r) == \E i \in DOMAIN RouteTokens(r) : RouteTokens(r)[i] = "CCUS"

\* (variant: the capture fraction is not applied)
ModelEf_uncaptured(q, ccus_capture_max) == [r \in q.routes |-> q.ef_scope1[r] * EfScale]

\* effective scope-1 factor used by the ETS constraint, times EfScale
ModelEf(q, ccus_capture_max) ==
    [r \in q.routes |->
        IF IsCCUS(r) THEN q.ef_scope1[r] * (EfScale - ccus_capture_max)
        ELSE q.ef_scope1[r] * EfScale]

ModelYears(q) == q.years[1] .. Last(q.years)

unit_cap(q, r) == q.tech[r].unit_capacity_Mtpy
capex(q, r) == q.tech[r].capex_USD_per_tpy
fixom(q, r) == q.tech[r].fixed_opex_USD_per_tpy

intens(q, r, k) == IF k \in DOMAIN q.intensity[r] THEN q.intensity[r][k] ELSE 0

init_cap(q, r) == IF r = "BF-BOF" THEN q.demand[q.years[1]] ELSE 0

\* The constraint rules, with the variables they read as arguments:
\* K_rt = m.K[r,t], K_rprev = m.K[r,t-1] (not read at the first year),
\* Build_rt = m.Build[r,t], Q_rt = m.Q[r,t], Q_t = [r |-> m.Q[r,t]], ETSpos_t = m.ETSpos[t]
\* (variant: capacity only bounded below, as in the product-class builder)
cap_balance_ge(q, r, t, K_rt, K_rprev, Build_rt) ==
    IF t = q.years[1]
    THEN K_rt >= init_cap(q, r) + unit_cap(q, r) * Build_rt
    ELSE K_rt >= K_rprev + unit_cap(q, r) * Build_rt

\* (variant: built units add no capacity)
cap_balance_without_build(q, r, t, K_rt, K_rprev, Build_rt) ==
    IF t = q.years[1] THEN K_rt = init_cap(q, r) ELSE K_rt = K_rprev

cap_balance(q, r, t, K_rt, K_rprev, Build_rt) ==
    IF t = q.years[1]
    THEN K_rt = init_cap(q, r) + unit_cap(q, r) * Build_rt
    ELSE K_rt = K_rprev + unit_cap(q, r) * Build_rt

\* (variant: the utilization factor left out)
prod_limit_no_util(utilization, Q_rt, K_rt) == Q_rt <= K_rt

prod_limit(utilization, Q_rt, K_rt) == 100 * Q_rt <= utilization * K_rt

\* (variant: demand as a lower bound, as in the product-class builder)
demand_ge(q, t, Q_t) == SumOver(Q_t, q.routes) >= q.demand[t]

demand(q, t, Q_t) == SumOver(Q_t, q.routes) = q.demand[t]

free_of(q, t) == IF t \in DOMAIN q.free_alloc THEN q.free_alloc[t] ELSE 0

ets_balance(q, ef, t, Q_t, ETSpos_t) ==
    LET s1 == SumOver([r \in q.routes |-> ef[r] * Q_t[r]], q.routes)
        free == EfScale * free_of(q, t)
    IN ETSpos_t >= s1 - free

\* variable cost of one tonne on route r in year t
usd_per_t(q, r, t, hydrogen_case) ==
    LET ore == intens(q, r, "iron_ore_t_per_t") * price_fn(q, "iron_ore_USD_per_t", t)
        coal == intens(q, r, "coking_coal_t_per_t") * price_fn(q, "coking_coal_USD_per_t", t)
        scrap == intens(q, r, "scrap_t_per_t") * price_fn(q, "scrap_USD_per_t", t)
        ng == intens(q, r, "ng_GJ_per_t") * price_fn(q, "ng_USD_per_GJ", t)
        elec == intens(q, r, "electricity_MWh_per_t") * price_fn(q, "electricity_USD_per_MWh", t)
        h2 == IF hydrogen_case = "optimistic"
              THEN intens(q, r, "h2_kg_per_t") * price_fn(q, "hydrogen_USD_per_kg_optimistic", t)
              ELSE intens(q, r, "h2_kg_per_t") * price_fn(q, "hydrogen_USD_per_kg_baseline", t)
        flux == intens(q, r, "fluxes_t_per_t") * price_fn(q, "fluxes_USD_per_t", t)
        alloys == intens(q, r, "alloys_USD_per_t")
    IN ore + coal + scrap + ng + elec + h2 + flux + alloys

\* 1/(1+rate)^d, times (den+num)^DiscExpMax
disc(rate, d) == Pow(rate.den, d) * Pow(rate.den + rate.num, DiscExpMax - d)

capex_t(q, a, t) ==
    SumOver([r \in q.routes |-> a[t].Build[r] * unit_cap(q, r) * capex(q, r) * EfScale], q.routes)
\* (variant: fixed O&M left out of the objective)
fix_t_dropped(q, a, t) == 0

fix_t(q, a, t) ==
    SumOver([r \in q.routes |-> a[t].K[r] * fixom(q, r) * EfScale], q.routes)
var_t(q, a, t, hydrogen_case) ==
    SumOver([r \in q.routes |-> a[t].Q[r] * usd_per_t(q, r, t, hydrogen_case) * EfScale], q.routes)
\* (variant: the ETS term left out of the objective)
ets_t_dropped(q, a, t) == 0

ets_t(q, a, t) == q.carbon_price[t] * a[t].ETSpos

obj_rule(q, T, a, discount_rate, hydrogen_case) ==
    SumOver([t \in T |->
                disc(discount_rate, t - q.t0)
                * (capex_t(q, a, t) + fix_t(q, a, t) + var_t(q, a, t, hydrogen_case)
                   + ets_t(q, a, t))], T)

\* build_model raises (KeyError) when a model year has no demand or no carbon
\* price, or a route has no process_intensity row
BuildFails(q) ==
    \/ \E t \in ModelYears(q) : t \notin DOMAIN q.demand \/ t \notin DOMAIN q.carbon_price
    \/ \E r \in q.routes : r \notin DOMAIN q.intensity

\* the (commodity, year) prices obj_rule asks price() for: every commodity in
\* every model year, with the hydrogen price of the chosen case only
RequestedPrices(q, hydrogen_case) ==
    LET unused == IF hydrogen_case = "optimistic" THEN "hydrogen_USD_per_kg_baseline"
                  ELSE "hydrogen_USD_per_kg_optimistic"
    IN (Commodities \ {unused}) \X ModelYears(q)

\* obj_rule raises (KeyError out of price_fn) when a requested price has no row or column
PriceRaises(q, hydrogen_case) ==
    \E ct \in RequestedPrices(q, hydrogen_case) : price_fn_raises(q, ct[1], ct[2])

\* a requested price is NaN: the objective expression is built with it
PriceNaN(q, hydrogen_case) ==
    \E ct \in RequestedPrices(q, hydrogen_case) : price_fn_nan(q, ct[1], ct[2])

NoAssignment == [t \in {} |-> 0]
NoModel == [built |-> FALSE, T |-> {}, ef |-> [r \in {} |-> 0], obj_nan |-> FALSE,
            loaded |-> FALSE, val |-> NoAssignment]

build_model(q, hydrogen_case, ccus_capture_max) ==
    [built |-> TRUE, T |-> ModelYears(q), ef |-> ModelEf(q, ccus_capture_max),
     obj_nan |-> PriceNaN(q, hydrogen_case), loaded |-> FALSE, val |-> NoAssignment]

----------------------------------------------------------------------------
(* The solver boundary: the assignments of the program build_model states. *)
(* Variable domains are bounded: Build in 0..MaxBuild, K in 0..MaxK, Q in  *)
(* 0..MaxDemand, ETSpos in a window of whole Mt around the ETS bound.      *)

MaxK == MaxDemand + MaxBuild * Horizon

Ext(a, t, y) == [u \in (DOMAIN a) \cup {t} |-> IF u = t THEN y ELSE a[u]]

ETSposWindow(q, ef, Q_t, t) ==
    LET s1 == SumOver([r \in q.routes |-> ef[r] * Q_t[r]], q.routes)
        lb == Max2(0, s1 - EfScale * free_of(q, t))
    IN {lb + k * EfScale : k \in SlackSteps}

\* the ways to extend assignment a (feasible up to year t-1) by year t:
\* every (Build, K, Q, ETSpos) of the bounded domains that satisfies
\* CapacityBalance, ProdLimit, Demand and ETSBalance of year t
YearExtensions(q, mdl, utilization, a, t) ==
    LET K_prev(r) == IF t = q.years[1] THEN 0 ELSE a[t - 1].K[r]
        PairsOK(r) == {bk \in BuildUnits \X (0 .. MaxK) :
                          cap_balance(q, r, t, bk[2], K_prev(r), bk[1])}
        BK == {f \in [q.routes -> UNION {PairsOK(r) : r \in q.routes}] :
                  \A r \in q.routes : f[r] \in PairsOK(r)}
        QS(bk) == {Q_t \in [q.routes -> 0 .. MaxDemand] :
                      /\ \A r \in q.routes : prod_limit(utilization, Q_t[r], bk[r][2])
                      /\ demand(q, t, Q_t)}
        ES(Q_t) == {e \in ETSposWindow(q, mdl.ef, Q_t, t) :
                       /\ e >= 0
                       /\ ets_balance(q, mdl.ef, t, Q_t, e)}
        year(bk, Q_t, e) ==
            Ext(a, t, [Build |-> [r \in q.routes |-> bk[r][1]],
                       K |-> [r \in q.routes |-> bk[r][2]],
                       Q |-> Q_t, ETSpos |-> e])
    IN UNION { UNION { {year(bk, Q_t, e) : e \in ES(Q_t)} : Q_t \in QS(bk) } : bk \in BK }

RECURSIVE FeasibleUpTo(_, _, _, _)
FeasibleUpTo(q, mdl, utilization, t) ==
    IF t < q.years[1] THEN {NoAssignment}
    ELSE UNION { YearExtensions(q, mdl, utilization, a, t) :
                    a \in FeasibleUpTo(q, mdl, utilization, t - 1) }

Feasible(q, mdl, utilization) == FeasibleUpTo(q, mdl, utilization, Last(q.years))

Optimal(q, mdl, a_args, F) ==
    LET cost(a) == obj_rule(q, mdl.T, a, a_args.discount, a_args.hydrogen_case)
        best == SetMin({cost(a) : a \in F})
    IN {a \in F : cost(a) = best}

\* (variant: only an infeasible termination stops the export)
SolveSucceeded_unless_infeasible(cond) == cond # "infeasible"

\* run.main: tc in (TerminationCondition.optimal, TerminationCondition.feasible)
SolveSucceeded(cond) == cond \in {"optimal", "feasible"}

----------------------------------------------------------------------------
(* export.export_timeseries *)

SeriesEf(q) ==
    [r \in q.routes |->
        IF IsCCUS(r) THEN q.ef_scope1[r] * (EfScale - CcusCaptureExport)
        ELSE q.ef_scope1[r] * EfScale]

SeriesRow(mdl, q, t) ==
    LET ef == SeriesEf(q)
    IN [year |-> t,
        Q |-> [r \in q.routes |-> mdl.val[t].Q[r]],
        scope1_MtCO2 |-> SumOver([r \in q.routes |-> ef[r] * mdl.val[t].Q[r]], q.routes),
        free_alloc_MtCO2 |-> free_of(q, t),
        carbon_price_USDpt |-> q.carbon_price[t]]

export_timeseries(mdl, q) == [i \in DOMAIN q.years |-> SeriesRow(mdl, q, q.years[i])]

----------------------------------------------------------------------------
(* export.export_detailed_timeseries *)

DetailedEf(q) ==
    [r \in q.routes |->
        IF IsCCUS(r) THEN q.ef_scope1[r] * (EfScale - CcusCaptureExport)
        ELSE q.ef_scope1[r] * EfScale]

capex_year(mdl, q, t) ==
    SumOver([r \in q.routes |->
                mdl.val[t].Build[r] * q.tech[r].unit_capacity_Mtpy
                * q.tech[r].capex_USD_per_tpy * EfScale], q.routes)

fixed_om_year(mdl, q, t) ==
    SumOver([r \in q.routes |->
                mdl.val[t].K[r] * q.tech[r].fixed_opex_USD_per_tpy * EfScale], q.routes)

var_opex_year(mdl, q, t, hydrogen_case) ==
    SumOver([r \in q.routes |->
                (mdl.val[t].Q[r] * EfScale) * usd_per_t(q, r, t, hydrogen_case)], q.routes)

ets_validation_match(ets_cost, ets_cost_calc) ==
    Abs(ets_cost - ets_cost_calc) * UsdPerUnit < EtsTolUSD

DetailedRow(mdl, q, t, discount_rate, hydrogen_case) ==
    LET ef == DetailedEf(q)
        discount_factor == disc(discount_rate, t - q.t0)
        scope1_emissions == SumOver([r \in q.routes |-> ef[r] * mdl.val[t].Q[r]], q.routes)
        free_allocation == free_of(q, t)
        carbon_price == q.carbon_price[t]
        ets_positive_mt == mdl.val[t].ETSpos
        ets_cost == ets_positive_mt * carbon_price
        net_emissions == Max2(0, scope1_emissions - EfScale * free_allocation)
        ets_cost_calc == net_emissions * carbon_price
        capex_y == capex_year(mdl, q, t)
        fixed_y == fixed_om_year(mdl, q, t)
        opex_y == var_opex_year(mdl, q, t, hydrogen_case)
        total_cost == capex_y + fixed_y + opex_y + ets_cost
        total_production == SumOver([r \in q.routes |-> mdl.val[t].Q[r]], q.routes)
    IN [year |-> t,
        scope1_emissions_MtCO2 |-> scope1_emissions,
        free_allocation_MtCO2 |-> free_allocation,
        carbon_price_USD_per_tCO2 |-> carbon_price,
        ets_cost_USD |-> ets_cost,
        ets_positive_MtCO2 |-> ets_positive_mt,
        ets_cost_discounted_USD |-> ets_cost * discount_factor,
        ets_cost_calculated_USD |-> ets_cost_calc,
        ets_validation_match |-> ets_validation_match(ets_cost, ets_cost_calc),
        capex_USD |-> capex_y,
        fixed_om_USD |-> fixed_y,
        opex_USD |-> opex_y,
        total_cost_USD |-> total_cost,
        total_cost_discounted_USD |-> total_cost * discount_factor,
        Q |-> [r \in q.routes |-> mdl.val[t].Q[r]],
        total_production_Mt |-> total_production,
        K |-> [r \in q.routes |-> mdl.val[t].K[r]],
        Build |-> [r \in q.routes |-> mdl.val[t].Build[r]],
        demand_Mt |-> q.demand[t],
        demand_satisfied |-> Abs(total_production - q.demand[t]) * MicroPerMt < DemandTolMicro]

\* (variant: the running sum stops one row short)
cumulative_before(column, i) == SumOver([j \in 1 .. (i - 1) |-> column[j]], 1 .. (i - 1))

\* sum(rows[j][column] for j in range(i+1)), rows counted from 1 here
cumulative(column, i) == SumOver([j \in 1 .. i |-> column[j]], 1 .. i)

export_detailed_timeseries(mdl, q, discount_rate, hydrogen_case) ==
    LET rows == [i \in DOMAIN q.years |->
                    DetailedRow(mdl, q, q.years[i], discount_rate, hydrogen_case)]
        emis == [i \in DOMAIN rows |-> rows[i].scope1_emissions_MtCO2]
        prod == [i \in DOMAIN rows |-> rows[i].total_production_Mt]
    IN [i \in DOMAIN rows |->
            [row |-> rows[i],
             cumulative_emissions_MtCO2 |-> cumulative(emis, i),
             cumulative_production_Mt |-> cumulative(prod, i)]]

----------------------------------------------------------------------------
(* run.main *)

NoArgs == [carbon_scenario |-> "", discount |-> [num |-> 0, den |-> 1], util |-> 0,
           hydrogen_case |-> "", solve |-> FALSE, ccus_capture_max |-> 0]
NoParams == [years |-> <<>>]
NoXls == [sheet_names |-> {}, scenarios |-> {}]
NoSummary == [scenario |-> ""]

\* argparse, os.makedirs, load_parameters
Load(ArgSet, WorkbookSet) ==
    /\ pc = "start"
    /\ \E a \in ArgSet, wb \in WorkbookSet :
          /\ args' = a
          /\ xls' = [sheet_names |-> wb.sheet_names,
                     scenarios |-> {wb.carbon_price[i].scenario : i \in DOMAIN wb.carbon_price}]
          /\ IF MissingSheets(wb) # {}
             THEN /\ pc' = "error"
                  /\ exc' = "ValueError: Required sheet missing"
                  /\ p' = p
             ELSE IF ~ScenarioKnown(wb, a.carbon_scenario)
             THEN /\ pc' = "error"
                  /\ exc' = "ValueError: Scenario not found"
                  /\ p' = p
             ELSE /\ pc' = "loaded"
                  /\ exc' = exc
                  /\ p' = load_parameters(wb, a.carbon_scenario)
    /\ UNCHANGED <<m, tc, written, series, detailed, summary>>
    /\ UNCHANGED origVars

\* m = build_model(p, discount_rate, utilization, hydrogen_case)
Main_Build ==
    /\ pc = "loaded"
    /\ IF BuildFails(p) \/ PriceRaises(p, args.hydrogen_case)
       THEN /\ pc' = "error"
            /\ exc' = "KeyError"
            /\ m' = m
       ELSE /\ pc' = "built"
            /\ exc' = exc
            /\ m' = build_model(p, args.hydrogen_case, args.ccus_capture_max)
    /\ UNCHANGED <<xls, args, p, tc, written, series, detailed, summary>>
    /\ UNCHANGED origVars

\* without --solve: "Model built successfully"
Main_NoSolve ==
    /\ pc = "built"
    /\ ~args.solve
    /\ pc' = "done"
    /\ UNCHANGED <<xls, args, p, m, tc, written, series, detailed, summary, exc>>
    /\ UNCHANGED origVars

\* what the solver leaves behind: a termination condition and, when it has a
\* solution, the variable values loaded into the model
SolverOutcomes(q, mdl, a_args) ==
    LET F == Feasible(q, mdl, a_args.util)
    IN    {[cond |-> "optimal", loaded |-> TRUE, val |-> a] : a \in Optimal(q, mdl, a_args, F)}
     \cup {[cond |-> "feasible", loaded |-> TRUE, val |-> a] : a \in F}
     \cup {[cond |-> "other", loaded |-> TRUE, val |-> a] : a \in F}
     \cup {[cond |-> "other", loaded |-> FALSE, val |-> NoAssignment]}
     \cup (IF F = {} THEN {[cond |-> "infeasible", loaded |-> FALSE, val |-> NoAssignment]}
           ELSE {})

\* opt.solve(m) and the check of the termination condition.  A model whose
\* objective holds NaN is not a program the solver can take: writing it out
\* raises, or the solver ends without a solution.
Main_Solve ==
    /\ pc = "built"
    /\ args.solve
    /\ IF m.obj_nan
       THEN \E raised \in BOOLEAN :
               /\ tc' = IF raised THEN tc ELSE "other"
               /\ pc' = IF raised THEN "error" ELSE "done"
               /\ exc' = IF raised THEN "ValueError: NaN in the objective" ELSE exc
               /\ m' = m
       ELSE \E o \in SolverOutcomes(p, m, args) :
               /\ tc' = o.cond
               /\ m' = [m EXCEPT !.loaded = o.loaded, !.val = o.val]
               /\ pc' = IF SolveSucceeded(o.cond) THEN "solved" ELSE "done"
               /\ exc' = exc
    /\ UNCHANGED <<xls, args, p, written, series, detailed, summary>>
    /\ UNCHANGED origVars

\* export_timeseries(m, p, csv_path)
Main_ExportSeries ==
    /\ pc = "solved"
    /\ IF m.loaded
       THEN /\ series' = export_timeseries(m, p)
            /\ written' = written \cup {"series"}
            /\ pc' = "series_written"
            /\ exc' = exc
       ELSE /\ pc' = "error"
            /\ exc' = "ValueError: No value for uninitialized variable"
            /\ UNCHANGED <<series, written>>
    /\ UNCHANGED <<xls, args, p, m, tc, detailed, summary>>
    /\ UNCHANGED origVars

\* (variant: the detailed export is passed over on the way to the summary)
Main_ExportDetailed_skipped ==
    /\ pc = "series_written"
    /\ pc' = "detailed_written"
    /\ UNCHANGED <<xls, args, p, m, tc, written, series, detailed, summary, exc>>
    /\ UNCHANGED origVars

\* export_detailed_timeseries(m, p, detailed_csv_path, ...)
Main_ExportDetailed ==
    /\ pc = "series_written"
    /\ detailed' = export_detailed_timeseries(m, p, args.discount, args.hydrogen_case)
    /\ written' = written \cup {"detailed"}
    /\ pc' = "detailed_written"
    /\ UNCHANGED <<xls, args, p, m, tc, series, summary, exc>>
    /\ UNCHANGED origVars

\* the summary JSON, its totals read back from the series CSV
Main_Summary ==
    /\ pc = "detailed_written"
    /\ LET df == series
           total_emis == SumOver([i \in DOMAIN df |-> df[i].scope1_MtCO2], DOMAIN df)
           total_prod == SumOver([i \in DOMAIN df |->
                                    SumOver(df[i].Q, DOMAIN df[i].Q)], DOMAIN df)
       IN summary' = [scenario |-> args.carbon_scenario,
                      discount_rate |-> args.discount,
                      objective_USD |-> obj_rule(p, m.T, m.val, args.discount, args.hydrogen_case),
                      cumulative_scope1_MtCO2 |-> total_emis,
                      total_production_Mt |-> total_prod]
    /\ written' = written \cup {"summary"}
    /\ pc' = "done"
    /\ UNCHANGED <<xls, args, p, m, tc, series, detailed, exc>>
    /\ UNCHANGED origVars

----------------------------------------------------------------------------
(* model_original.build_model: the product-class builder.  Of the five     *)
(* routes and three product classes the code lists, two routes (one that   *)
(* may not serve auto-exposed steel freely, one that is capped by DR-grade *)
(* supply) and two classes are modelled, over a horizon of OrigYears.      *)
(* Q and Kcap are integers in Mt; D is kept in 1/100 Mt because a share is *)
(* a percentage.                                                           *)

OrigRoutes == {"BF-BOF", "Scrap EAF"}
OrigClasses == {"flat_auto_exposed", "long"}
OrigYears == ContiguousYears
\* the year the baseline demand is read from: two years before the horizon
BaselineYear == FirstYear - 2
OrigUtilPct == 90

\* demand_path rows in sheet order; nan marks an empty cell.  The sheets:
\* complete; a gap after a value; a leading gap with and without a baseline
\* row; an explicit zero; a year of the horizon without a row.
DemRow(y, v) == [year |-> y, nan |-> FALSE, v |-> v]
DemGap(y) == [year |-> y, nan |-> TRUE, v |-> 0]
DemandPathSheets ==
    { <<DemRow(BaselineYear, 2), DemRow(FirstYear, 2), DemRow(FirstYear + 1, 2)>>,
      <<DemRow(FirstYear, 2), DemGap(FirstYear + 1)>>,
      <<DemRow(BaselineYear, 2), DemGap(FirstYear), DemRow(FirstYear + 1, 2)>>,
      <<DemGap(FirstYear), DemRow(FirstYear + 1, 2)>>,
      <<DemRow(FirstYear, 2), DemRow(FirstYear + 1, 0)>>,
      <<DemRow(FirstYear, 2)>> }

\* product_shares, in percent
ProductShares == [y \in SeqRange(OrigYears) |-> [k \in OrigClasses |-> 50]]
\* tech_routes of the product-class workbook
OrigTech ==
    [r \in OrigRoutes |->
        IF r = "BF-BOF"
        THEN [unit_capacity_Mtpy |-> 1, capex_USD_per_tpy |-> 1, variable_opex_USD_per_t |-> 1]
        ELSE [unit_capacity_Mtpy |-> 1, capex_USD_per_tpy |-> 2, variable_opex_USD_per_t |-> 1]]
\* dr_grade_supply: the first year only; drdict.get(t, 0.0) for the others
DrGradeSupply == [y \in {FirstYear} |-> 1]

OrigSheetSets == [demand_path : DemandPathSheets]

\* rows of dem with min(years) <= year <= max(years), in sheet order
RECURSIVE InHorizon(_)
InHorizon(dem) ==
    IF dem = <<>> THEN <<>>
    ELSE IF Head(dem).year >= OrigYears[1] /\ Head(dem).year <= Last(OrigYears)
         THEN <<Head(dem)>> \o InHorizon(Tail(dem))
         ELSE InHorizon(Tail(dem))

\* the value .fillna(baseline_demand if baseline_demand else 0.0) fills with:
\* the first row of BaselineYear when it holds a non-zero number, else 0
baseline_fill(dem) ==
    LET rows == {i \in DOMAIN dem : dem[i].year = BaselineYear}
        first == CHOOSE i \in rows : \A j \in rows : i <= j
    IN IF rows # {} /\ ~dem[first].nan /\ dem[first].v # 0 THEN dem[first].v ELSE 0

\* fillna(method="ffill") then fillna(fill): a gap takes the value of the
\* nearest row above it that holds one, else the fill value
filled(dem_h, fill) ==
    [i \in DOMAIN dem_h |->
        IF ~dem_h[i].nan THEN dem_h[i].v
        ELSE LET above == {j \in 1 .. (i - 1) : ~dem_h[j].nan}
             IN IF above = {} THEN fill
                ELSE dem_h[CHOOSE j \in above : \A k \in above : k <= j].v]

\* dem.loc[dem["year"] == y, ...].values[0] raises IndexError without a row of year y
has_row(dem_h, y) == \E i \in DOMAIN dem_h : dem_h[i].year = y
value_of(dem_h, col, y) ==
    col[CHOOSE i \in DOMAIN dem_h :
            dem_h[i].year = y /\ \A j \in DOMAIN dem_h : dem_h[j].year = y => i <= j]

\* total of year y, in Mt: the filled value, and the first year's when that is zero
total_demand(dem, y) ==
    LET dem_h == InHorizon(dem)
        col == filled(dem_h, baseline_fill(dem))
        total == value_of(dem_h, col, y)
    IN IF total = 0 THEN value_of(dem_h, col, OrigYears[1]) ELSE total

\* D[(y, k)] = total * share, in 1/100 Mt
OrigDemand(sheets) ==
    [y \in SeqRange(OrigYears) |->
        [k \in OrigClasses |-> total_demand(sheets.demand_path, y) * ProductShares[y][k]]]

OrigBuildFails(sheets) ==
    \E y \in SeqRange(OrigYears) : ~has_row(InHorizon(sheets.demand_path), y)

cap_add(r) == OrigTech[r].unit_capacity_Mtpy

NoOrigModel == [built |-> FALSE, T |-> {}, D |-> <<>>, val |-> NoAssignment]

orig_build_model(sheets) ==
    [built |-> TRUE, T |-> OrigYears[1] .. Last(OrigYears), D |-> OrigDemand(sheets),
     val |-> NoAssignment]

\* Constraints, each over the values of one year (and of the year before)

\* (variant: the capacity of the year before is not carried over)
cap_evo_rule_no_carry(t, Kcap_rt, Kcap_rprev, x_rt, r) == Kcap_rt >= cap_add(r) * x_rt

cap_evo_rule(t, Kcap_rt, Kcap_rprev, x_rt, r) ==
    IF t = OrigYears[1] THEN Kcap_rt >= cap_add(r) * x_rt
    ELSE Kcap_rt >= Kcap_rprev + cap_add(r) * x_rt

util_rule(Q_t, Kcap_t) ==
    100 * SumOver(Q_t, OrigRoutes \X OrigClasses)
        <= OrigUtilPct * SumOver(Kcap_t, OrigRoutes)

\* (variant: the demand constraint is left out)
demand_rule_none(D_t, k, Q_t) == TRUE

demand_rule(D_t, k, Q_t) ==
    100 * SumOver([r \in OrigRoutes |-> Q_t[<<r, k>>]], OrigRoutes) >= D_t[k]

auto_cap_rule(t, Q_t) ==
    LET allowed == OrigRoutes \cap {"Scrap EAF", "NG-DRI-EAF", "H2-DRI/HyREX"}
        supply == IF t \in DOMAIN DrGradeSupply THEN DrGradeSupply[t] ELSE 0
    IN SumOver([r \in allowed |-> Q_t[<<r, "flat_auto_exposed">>]], allowed) <= supply

\* (variant: the build indicator is free in every year)
monotone_rule_free(t, x_rt, x_rprev) == x_rt >= 0

monotone_rule(t, x_rt, x_rprev) ==
    IF t = OrigYears[1] THEN x_rt >= 0 ELSE x_rt >= x_rprev

orig_obj_rule(T, a) ==
    SumOver([t \in T |->
                SumOver([r \in OrigRoutes |-> OrigTech[r].capex_USD_per_tpy * a[t].x[r]], OrigRoutes)
                + SumOver([rk \in OrigRoutes \X OrigClasses |->
                              OrigTech[rk[1]].variable_opex_USD_per_t * a[t].Q[rk]],
                          OrigRoutes \X OrigClasses)], T)

\* The assignments of the product-class program on a grid: x binary, Kcap in
\* OrigKcapLevels, Q in OrigQLevels.
OrigKcapLevels == {0, 1, 2}
OrigQLevels == {0, 1}

OrigYearExtensions(mdl, a, t) ==
    LET first == (t = OrigYears[1])
        x_prev(r) == IF first THEN 0 ELSE a[t - 1].x[r]
        K_prev(r) == IF first THEN 0 ELSE a[t - 1].Kcap[r]
        XS == {x_t \in [OrigRoutes -> {0, 1}] :
                  \A r \in OrigRoutes : monotone_rule(t, x_t[r], x_prev(r))}
        KS(x_t) == {Kcap_t \in [OrigRoutes -> OrigKcapLevels] :
                       \A r \in OrigRoutes :
                           cap_evo_rule(t, Kcap_t[r], K_prev(r), x_t[r], r)}
        QS == {Q_t \in [OrigRoutes \X OrigClasses -> OrigQLevels] :
                  /\ \A k \in OrigClasses : demand_rule(mdl.D[t], k, Q_t)
                  /\ auto_cap_rule(t, Q_t)}
    IN UNION { UNION { {Ext(a, t, [x |-> x_t, Kcap |-> Kcap_t, Q |-> Q_t]) :
                          Q_t \in {Q_t \in QS : util_rule(Q_t, Kcap_t)}} :
                       Kcap_t \in KS(x_t) } : x_t \in XS }

RECURSIVE OrigFeasibleUpTo(_, _)
OrigFeasibleUpTo(mdl, t) ==
    IF t < OrigYears[1] THEN {NoAssignment}
    ELSE UNION {OrigYearExtensions(mdl, a, t) : a \in OrigFeasibleUpTo(mdl, t - 1)}

OrigFeasible(mdl) == OrigFeasibleUpTo(mdl, Last(OrigYears))

OrigOptimal(mdl, F) ==
    LET best == SetMin({orig_obj_rule(mdl.T, a) : a \in F})
    IN {a \in F : orig_obj_rule(mdl.T, a) = best}

----------------------------------------------------------------------------
(* run_original.main: the product-class runner *)

ScenarioMatrix == {"HardConstraints", "Baseline"}
OrigScenarioNames == ScenarioMatrix \cup {"Unlisted"}
SolverNames == {"glpk", "cbc"}

OrigArgSets ==
    [scenario : OrigScenarioNames, solve : BOOLEAN, solver : SolverNames, dry_run : BOOLEAN]

NoOrigArgs == [scenario |-> "", solve |-> FALSE, solver |-> "", dry_run |-> FALSE]
NoOrigSheets == [demand_path |-> <<>>]
NoOrigSolve == [called |-> FALSE, cond |-> "none", loaded |-> FALSE]

\* (variant: a scenario name that is not in the matrix is accepted)
select_scenario_found_any(scenario_name) == TRUE

\* io_original.select_scenario: the scenario_matrix row, or ValueError
select_scenario_found(scenario_name) == scenario_name \in ScenarioMatrix

\* argparse, load_params, select_scenario, build_model
Orig_Load ==
    /\ opc = "start"
    /\ \E a \in OrigArgSets, sh \in OrigSheetSets :
          /\ oargs' = a
          /\ osheets' = sh
          /\ IF ~select_scenario_found(a.scenario) \/ OrigBuildFails(sh)
             THEN /\ opc' = "error"
                  /\ om' = om
             ELSE /\ opc' = "built"
                  /\ om' = orig_build_model(sh)
    /\ UNCHANGED <<osolve, owritten>>
    /\ UNCHANGED mainVars

\* if args.dry_run and not args.solve: return
Orig_DryRun ==
    /\ opc = "built"
    /\ oargs.dry_run /\ ~oargs.solve
    /\ opc' = "done"
    /\ UNCHANGED <<oargs, osheets, om, osolve, owritten>>
    /\ UNCHANGED mainVars

\* what the solver leaves behind in the product-class model
OrigSolverOutcomes(mdl) ==
    LET F == OrigFeasible(mdl)
    IN    {[cond |-> "optimal", loaded |-> TRUE, val |-> a] : a \in OrigOptimal(mdl, F)}
     \cup {[cond |-> "feasible", loaded |-> TRUE, val |-> a] : a \in F}
     \cup {[cond |-> "other", loaded |-> TRUE, val |-> a] : a \in F}
     \cup {[cond |-> "other", loaded |-> FALSE, val |-> NoAssignment]}
     \cup (IF F = {} THEN {[cond |-> "infeasible", loaded |-> FALSE, val |-> NoAssignment]}
           ELSE {})

\* if args.solve: SolverFactory; unavailable -> return; else opt.solve(m)
Orig_Solve ==
    /\ opc = "built"
    /\ oargs.solve
    /\ \E available \in BOOLEAN :
          IF ~available
          THEN /\ opc' = "done"
               /\ osolve' = osolve
               /\ om' = om
          ELSE /\ opc' = "export"
               /\ \E o \in OrigSolverOutcomes(om) :
                     /\ osolve' = [called |-> TRUE, cond |-> o.cond, loaded |-> o.loaded]
                     /\ om' = [om EXCEPT !.val = o.val]
    /\ UNCHANGED <<oargs, osheets, owritten>>
    /\ UNCHANGED mainVars

\* neither --solve nor --dry-run: straight on to the export block
Orig_NoSolve ==
    /\ opc = "built"
    /\ ~oargs.solve /\ ~oargs.dry_run
    /\ opc' = "export"
    /\ UNCHANGED <<oargs, osheets, om, osolve, owritten>>
    /\ UNCHANGED mainVars

\* os.makedirs; the summary dict evaluates value(m.Obj), which raises when the
\* variables hold no values; then the summary JSON is written
Orig_Summary ==
    /\ opc = "export"
    /\ IF osolve.loaded
       THEN /\ owritten' = owritten \cup {"summary"}
            /\ opc' = "summary_written"
       ELSE /\ owritten' = owritten
            /\ opc' = "error"
    /\ UNCHANGED <<oargs, osheets, om, osolve>>
    /\ UNCHANGED mainVars

\* if args.solve and hasattr(m, "Obj"): the series CSV
Orig_Series ==
    /\ opc = "summary_written"
    /\ owritten' = IF oargs.solve THEN owritten \cup {"series"} ELSE owritten
    /\ opc' = "done"
    /\ UNCHANGED <<oargs, osheets, om, osolve>>
    /\ UNCHANGED mainVars

OrigInit ==
    /\ opc = "start"
    /\ oargs = NoOrigArgs
    /\ osheets = NoOrigSheets
    /\ om = NoOrigModel
    /\ osolve = NoOrigSolve
    /\ owritten = {}

----------------------------------------------------------------------------
Main_Load == Load(ArgSets, Workbooks)
Lib_Load == Load(LibArgSets, LibWorkbooks)

MainInit ==
    /\ pc = "start"
    /\ xls = NoXls
    /\ args = NoArgs
    /\ p = NoParams
    /\ m = NoModel
    /\ tc = "none"
    /\ written = {}
    /\ series = <<>>
    /\ detailed = <<>>
    /\ summary = NoSummary
    /\ exc = "none"

OrigIdle ==
    /\ opc = "idle"
    /\ oargs = NoOrigArgs
    /\ osheets = NoOrigSheets
    /\ om = NoOrigModel
    /\ osolve = NoOrigSolve
    /\ owritten = {}

MainIdle ==
    /\ pc = "idle"
    /\ xls = NoXls
    /\ args = NoArgs
    /\ p = NoParams
    /\ m = NoModel
    /\ tc = "none"
    /\ written = {}
    /\ series = <<>>
    /\ detailed = <<>>
    /\ summary = NoSummary
    /\ exc = "none"

Init == MainInit /\ OrigIdle

Next ==
    \/ Main_Load
    \/ Main_Build
    \/ Main_NoSolve
    \/ Main_Solve
    \/ Main_ExportSeries
    \/ Main_ExportDetailed
    \/ Main_Summary

Spec == Init /\ [][Next]_vars

\* the library used directly: build_model with a caller-chosen capture fraction
NextLib ==
    \/ Lib_Load
    \/ Main_Build
    \/ Main_NoSolve
    \/ Main_Solve
    \/ Main_ExportSeries
    \/ Main_ExportDetailed
    \/ Main_Summary

SpecLib == Init /\ [][NextLib]_vars

\* the product-class runner
NextOrig ==
    \/ Orig_Load
    \/ Orig_DryRun
    \/ Orig_Solve
    \/ Orig_NoSolve
    \/ Orig_Summary
    \/ Orig_Series

InitOrig == MainIdle /\ OrigInit

SpecOrig == InitOrig /\ [][NextOrig]_vars

\* either entry point is run
InitRunners == Init \/ InitOrig

NextRunners == Next \/ NextOrig

SpecRunners == InitRunners /\ [][NextRunners]_vars

----------------------------------------------------------------------------
(* Properties *)

Q(r, t) == m.val[t].Q[r]
K(r, t) == m.val[t].K[r]
Build(r, t) == m.val[t].Build[r]
ETSpos(t) == m.val[t].ETSpos

\* scope-1 emissions of year t with the factors of the built model, minus free allocation
NetEmissions(t) ==
    SumOver([r \in p.routes |-> m.ef[r] * Q(r, t)], p.routes) - EfScale * free_of(p, t)

SolveFailed == tc \in {"infeasible", "other"}

\* C1: for every route and every capture fraction build_model can be given,
\* the effective emission factor of export_detailed_timeseries and of
\* export_timeseries equals the one build_model puts in the ETS constraint.
C1_ExportEfEqualsModelEf ==
    m.built =>
        \A r \in p.routes : DetailedEf(p)[r] = m.ef[r] /\ SeriesEf(p)[r] = m.ef[r]

\* C2: after a successful solve in run.main the objective value equals the sum
\* of total_cost_discounted_USD over the exported yearly rows.
C2_ObjectiveEqualsExportedRows ==
    (pc = "done" /\ "summary" \in written) =>
        summary.objective_USD =
            SumOver([i \in DOMAIN detailed |-> detailed[i].row.total_cost_discounted_USD],
                    DOMAIN detailed)

\* an amount in whole USD exceeds 1e-3 USD exactly when it is at least 1 USD
ExceedsMilliUsd(amount_usd) == amount_usd >= 1

\* C3: a year whose two ETS costs (slack times price, max(0, emissions - free
\* allocation) times price) differ by more than 1e-3 currency units is never
\* written out as a data row: the export raises instead.
C3_EtsMismatchNotWritten ==
    "detailed" \in written =>
        \A i \in DOMAIN detailed :
            ~ExceedsMilliUsd(Abs(detailed[i].row.ets_cost_USD
                                 - detailed[i].row.ets_cost_calculated_USD) * UsdPerUnit)

C5_CapacityBalance ==
    m.loaded =>
        \A r \in p.routes :
            /\ K(r, p.t0) = init_cap(p, r) + p.tech[r].unit_capacity_Mtpy * Build(r, p.t0)
            /\ \A t \in m.T :
                  /\ Build(r, t) \in Nat
                  /\ t > p.t0 =>
                        K(r, t) - K(r, t - 1) = p.tech[r].unit_capacity_Mtpy * Build(r, t)

C5_Witness ==
    /\ m.loaded
    /\ \E r \in p.routes, t \in m.T : t > p.t0 /\ Build(r, t) > 0 /\ K(r, t) > K(r, t - 1)

\* C6: in every feasible assignment, Q[r,t] is at most the utilization rate
\* times the same route's capacity K[r,t].
C6_ProductionWithinCapacity ==
    m.loaded => \A r \in p.routes, t \in m.T : 100 * Q(r, t) <= args.util * K(r, t)

C6_Witness ==
    /\ m.loaded
    /\ args.util < 100
    /\ \E r \in p.routes, t \in m.T : Q(r, t) > 0 /\ K(r, t) > Q(r, t)

\* C7: in every feasible assignment total production equals demand[t] in
\* every year, and every row of export_detailed_timeseries has
\* demand_satisfied = true.
C7_DemandMet ==
    /\ m.loaded =>
          \A t \in m.T : SumOver([r \in p.routes |-> Q(r, t)], p.routes) = p.demand[t]
    /\ "detailed" \in written =>
          \A i \in DOMAIN detailed : detailed[i].row.demand_satisfied

C7_Witness ==
    /\ "detailed" \in written
    /\ Len(detailed) > 1
    /\ \E i \in DOMAIN detailed :
          /\ detailed[i].row.demand_satisfied
          /\ \A r \in p.routes : detailed[i].row.Q[r] > 0

\* C8: in run.main with --solve, after a termination condition that is
\* neither optimal nor feasible, none of the series CSV, the detailed CSV and
\* the summary JSON is ever written.
C8_NoExportAfterFailedSolve ==
    SolveFailed => (written = {} /\ series = <<>> /\ detailed = <<>> /\ summary = NoSummary)

C8_Witness ==
    /\ pc = "done"
    /\ tc = "other"
    /\ m.loaded
    /\ written = {}

\* C9: after a termination that is neither optimal nor feasible, zero output
\* rows are written and a run-level summary is produced that indicates the
\* failure.
C9_FailureSummaryProduced ==
    (pc = "done" /\ SolveFailed) =>
        /\ series = <<>> /\ detailed = <<>>
        /\ "summary" \in written

\* C10: run_original.main writes its summary and its series CSV only after an
\* optimal or feasible termination; after an infeasible or other termination,
\* or with the solver unavailable, it writes no file.
C10_OrigWritesOnlyAfterSuccess ==
    owritten # {} => (osolve.called /\ osolve.cond \in {"optimal", "feasible"})

\* C11: when the requested scenario name is not among the scenario rows, the
\* run ends in the loader's error, in run.main and in run_original.main alike,
\* and no model has been built by then.
C11_UnknownScenarioStopsBeforeBuild ==
    /\ (pc \notin {"idle", "start"} /\ args.carbon_scenario \notin xls.scenarios) =>
            (pc = "error" /\ ~m.built)
    /\ (opc \notin {"idle", "start"} /\ ~(oargs.scenario \in ScenarioMatrix)) =>
            (opc = "error" /\ ~om.built)

C11_Witness ==
    /\ pc = "error"
    /\ exc = "ValueError: Scenario not found"
    /\ xls.sheet_names = REQUIRED_SHEETS
    /\ args.carbon_scenario \notin xls.scenarios

\* C12: whenever one of the seven required sheets is absent from the workbook,
\* load_parameters raises; nothing has been read into the parameter dictionary
\* and no model has been built.
C12_MissingSheetIsFatal ==
    (pc \notin {"idle", "start"} /\ ~(REQUIRED_SHEETS \subseteq xls.sheet_names)) =>
        /\ pc = "error"
        /\ exc = "ValueError: Required sheet missing"
        /\ p = NoParams
        /\ ~m.built

C12_Witness ==
    /\ pc = "error"
    /\ "fuel_prices" \notin xls.sheet_names
    /\ args.carbon_scenario \in xls.scenarios

\* C13: a model is built only when every price its objective asks for is in
\* the price table: an absent price makes price_fn raise, so build_model fails.
C13_AbsentPriceFailsBuild ==
    m.built =>
        \A ct \in RequestedPrices(p, args.hydrogen_case) :
            /\ ct[1] \in DOMAIN p.fuel_prices
            /\ ct[2] \in DOMAIN p.fuel_prices[ct[1]]

\* the base factor of route r on the scale of the effective factors
BaseEf(r) == p.ef_scope1[r] * EfScale

\* the effective factors agree with a recomputation from the same parameters
EfRecomputed ==
    /\ m.ef = ModelEf(p, args.ccus_capture_max)
    /\ "detailed" \in written =>
            \A i \in DOMAIN detailed :
                detailed[i].row.scope1_emissions_MtCO2 =
                    SumOver([r \in p.routes |-> DetailedEf(p)[r] * Q(r, p.years[i])], p.routes)

C20_CumulativeColumns ==
    /\ "detailed" \in written =>
          \A i \in DOMAIN detailed :
              /\ detailed[i].cumulative_emissions_MtCO2 =
                     SumOver([j \in 1 .. i |-> detailed[j].row.scope1_emissions_MtCO2], 1 .. i)
              /\ detailed[i].cumulative_production_Mt =
                     SumOver([j \in 1 .. i |-> detailed[j].row.total_production_Mt], 1 .. i)
    /\ "summary" \in written =>
          /\ summary.cumulative_scope1_MtCO2 =
                 detailed[Len(detailed)].cumulative_emissions_MtCO2
          /\ summary.total_production_Mt = detailed[Len(detailed)].cumulative_production_Mt

C20_Witness ==
    /\ "summary" \in written
    /\ Len(detailed) >= 2
    /\ detailed[1].row.scope1_emissions_MtCO2 > 0
    /\ detailed[2].cumulative_emissions_MtCO2 > detailed[1].cumulative_emissions_MtCO2
    /\ summary.total_production_Mt > detailed[1].row.total_production_Mt

\* the values the solver loaded into the product-class model
OrigSolved == osolve.loaded
oQ(r, k, t) == om.val[t].Q[<<r, k>>]
oKcap(r, t) == om.val[t].Kcap[r]
ox(r, t) == om.val[t].x[r]

\* forward-fill then zero-fill: a year with a value keeps it (a zero too); a
\* year without one takes the value of the latest earlier year of the horizon
\* that has one, and 0 when there is none
ForwardFillThenZero(dem, y) ==
    LET dem_h == InHorizon(dem)
        holds(u) == \E i \in DOMAIN dem_h : dem_h[i].year = u /\ ~dem_h[i].nan
        val(u) == dem_h[CHOOSE i \in DOMAIN dem_h : dem_h[i].year = u /\ ~dem_h[i].nan].v
        earlier == {u \in OrigYears[1] .. (y - 1) : holds(u)}
    IN IF holds(y) THEN val(y)
       ELSE IF earlier = {} THEN 0
       ELSE val(CHOOSE u \in earlier : \A w \in earlier : w <= u)

\* C14: the total demand the product-class builder uses for a year follows
\* forward-fill then zero-fill: no other value stands in for a missing or a
\* zero demand year.
C14_DemandForwardFillThenZero ==
    om.built =>
        \A y \in om.T : \A k \in OrigClasses :
            om.D[y][k] = ForwardFillThenZero(osheets.demand_path, y) * ProductShares[y][k]

\* C15: in every feasible assignment of the product-class model, the
\* production of each class summed over the routes is at least the demand of
\* that class in that year.
C15_ClassDemandCovered ==
    OrigSolved =>
        \A t \in om.T : \A k \in OrigClasses :
            100 * SumOver([r \in OrigRoutes |-> oQ(r, k, t)], OrigRoutes) >= om.D[t][k]

C15_Witness ==
    /\ OrigSolved
    /\ \E t \in om.T : \E k \in OrigClasses :
          /\ om.D[t][k] > 0
          /\ 100 * SumOver([r \in OrigRoutes |-> oQ(r, k, t)], OrigRoutes) > om.D[t][k]

\* C16: in every feasible assignment of the product-class model, a build
\* indicator that is 1 in some year is 1 in every later year of the horizon.
C16_BuildIndicatorMonotone ==
    OrigSolved =>
        \A r \in OrigRoutes : \A t \in om.T : \A u \in om.T :
            (ox(r, t) = 1 /\ u > t) => ox(r, u) = 1

C16_Witness ==
    /\ OrigSolved
    /\ \E r \in OrigRoutes : \E t \in om.T : \E u \in om.T :
          u > t /\ ox(r, t) = 1 /\ ox(r, u) = 1
    /\ \E r \in OrigRoutes : \E t \in om.T : \E u \in om.T :
          u > t /\ ox(r, t) = 0 /\ ox(r, u) = 1

\* C17: in every feasible assignment of the product-class model, for every
\* route and every year after the first, the capacity change equals the unit
\* capacity times the build decision of that year.
C17_OrigCapacityBalance ==
    OrigSolved =>
        \A r \in OrigRoutes : \A t \in om.T :
            t > OrigYears[1] => oKcap(r, t) - oKcap(r, t - 1) = cap_add(r) * ox(r, t)

\* C18: in every feasible assignment of the product-class model, each
\* route's production summed over the classes is at most the utilization rate
\* times that route's own capacity.
C18_OrigRouteWithinCapacity ==
    OrigSolved =>
        \A r \in OrigRoutes : \A t \in om.T :
            100 * SumOver([k \in OrigClasses |-> oQ(r, k, t)], OrigClasses)
                <= OrigUtilPct * oKcap(r, t)

\* the closed-form case: one route, not a CCUS route, the same demand in every
\* year, a carbon price of zero in every year
ClosedFormCase ==
    /\ Cardinality(p.routes) = 1
    /\ \A r \in p.routes : ~IsCCUS(r)
    /\ \A t \in m.T : p.demand[t] = p.demand[p.t0] /\ p.carbon_price[t] = 0

\* the discounted cost computed by hand from the parameter tables: the fewest
\* units n built in t0 with utilization * (initial capacity + n * unit
\* capacity) >= D, their capital cost, and for every year the fixed O&M of
\* that capacity plus D tonnes at the route's unit variable cost
AnalyticCost ==
    LET r == CHOOSE x \in p.routes : TRUE
        D == p.demand[p.t0]
        K0 == IF r = "BF-BOF" THEN p.demand[p.years[1]] ELSE 0
        ucap == p.tech[r].unit_capacity_Mtpy
        n == SetMin({k \in 0 .. MaxK : args.util * (K0 + k * ucap) >= 100 * D})
        cap == K0 + n * ucap
        rate == args.discount
        df(t) == Pow(rate.den, t - p.t0) * Pow(rate.den + rate.num, DiscExpMax - (t - p.t0))
    IN df(p.t0) * n * ucap * p.tech[r].capex_USD_per_tpy * EfScale
       + SumOver([t \in m.T |->
                     df(t) * (cap * p.tech[r].fixed_opex_USD_per_tpy * EfScale
                              + D * usd_per_t(p, r, t, args.hydrogen_case) * EfScale)], m.T)

\* C21: for a single route with constant demand, zero carbon price and no
\* CCUS, the optimal objective equals the analytically computed discounted
\* cost.
C21_ClosedFormObjective ==
    (tc = "optimal" /\ m.loaded /\ ClosedFormCase) =>
        obj_rule(p, m.T, m.val, args.discount, args.hydrogen_case) = AnalyticCost

C21_Witness ==
    /\ tc = "optimal" /\ m.loaded
    /\ ClosedFormCase
    /\ args.util = 90
    /\ \E r \in p.routes : Build(r, p.t0) >= 1
    /\ obj_rule(p, m.T, m.val, args.discount, args.hydrogen_case) = AnalyticCost

\* C22: a route that has a row in the process-intensity table but is absent
\* from the route set makes build_model fail: no model is built from such
\* parameters.
C22_UnlistedIntensityRouteFailsBuild ==
    m.built => \A r \in DOMAIN p.intensity : r \in p.routes

\* C23: the initial capacity given to BF-BOF covers the demand of the first
\* year: whatever utilization rate build_model was given, the built program
\* has a feasible assignment that builds no unit of any route in the first
\* year (and, being feasible, meets the demand of that year).
C23_FirstYearCoveredWithoutBuild ==
    pc = "built" =>
        \E a \in Feasible(p, m, args.util) : \A r \in p.routes : a[p.years[1]].Build[r] = 0

\* C24: run_original.main writes the summary JSON in a dry run too: a run
\* with --dry-run and without --solve that built its model ends with the
\* summary file written.
C24_DryRunWritesSummary ==
    (opc = "done" /\ om.built /\ oargs.dry_run /\ ~oargs.solve) => "summary" \in owritten

\* C25: for every scenario load_parameters accepts, the years build_model
\* makes variables and constraints for (every integer from the first to the
\* last listed year) are exactly the scenario's listed years, for which the
\* exporters write rows, and every one of them has a carbon price.
C25_ModelYearsAreListedYears ==
    p # NoParams =>
        /\ ModelYears(p) = SeqRange(p.years)
        /\ \A t \in ModelYears(p) : t \in DOMAIN p.carbon_price

\* the files of run.main that exist were written in the order series CSV,
\* detailed CSV, summary JSON, and the summary's totals are the column sums
\* of the series CSV
OutputsInOrder ==
    /\ "detailed" \in written => "series" \in written
    /\ "summary" \in written =>
          /\ "series" \in written /\ "detailed" \in written
          /\ summary.cumulative_scope1_MtCO2 =
                 SumOver([i \in DOMAIN series |-> series[i].scope1_MtCO2], DOMAIN series)
          /\ summary.total_production_Mt =
                 SumOver([i \in DOMAIN series |-> SumOver(series[i].Q, DOMAIN series[i].Q)],
                         DOMAIN series)

\* a file that exists stays, with the content it was written with
WrittenFilesKept ==
    /\ written \subseteq written'
    /\ "series" \in written => series' = series
    /\ "detailed" \in written => detailed' = detailed
    /\ "summary" \in written => summary' = summary

\* C26: run.main writes the series CSV, then the detailed CSV, then the
\* summary JSON: whenever the summary exists both CSV files exist and its
\* totals are those of the series CSV, and no written file is changed later.
C26_OutputOrder == []OutputsInOrder /\ [][WrittenFilesKept]_vars

C26_Witness ==
    /\ pc = "done"
    /\ written = {"series", "detailed", "summary"}
    /\ Len(series) >= 2
    /\ summary.total_production_Mt > series[1].Q["BF-BOF"]
    /\ summary.cumulative_scope1_MtCO2 > 0

\* C27: in every feasible assignment of the aggregate model and of the
\* product-class model, a route's capacity in a year is at least its capacity
\* in the year before: capacity is never retired.
C27_CapacityNeverRetired ==
    /\ m.loaded =>
          \A r \in p.routes : \A t \in m.T : t > p.years[1] => K(r, t) >= K(r, t - 1)
    /\ OrigSolved =>
          \A r \in OrigRoutes : \A t \in om.T :
              t > OrigYears[1] => oKcap(r, t) >= oKcap(r, t - 1)

C27_Witness ==
    /\ m.loaded
    /\ \E t \in m.T :
          /\ t > p.years[1]
          /\ \E r \in p.routes : K(r, t - 1) > 0 /\ K(r, t) > K(r, t - 1)
          /\ \E r \in p.routes : K(r, t - 1) > 0 /\ K(r, t) = K(r, t - 1)

====
